---- MODULE Spec2Model ----
(***************************************************************************)
(* Little Years backend (src/main.py, src/schemas.py): the document store  *)
(* with its "kid" and "moment" collections, and the three handlers that    *)
(* touch it: seed_demo, list_kids and kid_timeline.                        *)
(*                                                                         *)
(* A document is a function from field names to values; a field a          *)
(* document lacks is absent from its domain.  An ObjectId is a natural     *)
(* number; a string handed in as a kid id is a record [form, oid]: the     *)
(* 24-digit hex text of an ObjectId in lower case (what str(ObjectId)      *)
(* yields), the same digits in upper case (which bson.ObjectId parses to   *)
(* the same id, and which is another string), or text that is no ObjectId. *)
(* An Optional[str] parameter is <<>> when absent and <<s>> when given.    *)
(*                                                                         *)
(* The handlers are synchronous functions that the server runs on worker   *)
(* threads, so a step of the model is one call on the store: seed_demo is  *)
(* six steps, kid_timeline two, list_kids one, and the steps of the seed  *)
(* calls under way (up to two at a time) and of a read request interleave. *)
(* overlap is a history variable: whether seed calls ever overlapped.      *)
(***************************************************************************)
EXTENDS Integers, Sequences, FiniteSets, TLC

VARIABLES db, kid, moment, nextOid, now, inserted, seeding, overlap, reading,
          pc, request, response

vars == <<db, kid, moment, nextOid, now, inserted, seeding, overlap, reading,
          pc, request, response>>

\* ------------------------------------------------------------------ bounds
MaxSeeds == 2
MaxClock == 3

\* --------------------------------------------------------------- constants
Grandma == "grandma@family.demo"
GrandmaCaps == "Grandma@family.demo"
Stranger == "stranger@x.com"
DemoTitles == {"First bike ride!", "Finger painting", "Goodnight message"}

Absent == <<>>
Given(s) == <<s>>

\* Python truthiness of an Optional[str]: None and "" are falsy.
Truthy(opt) == Len(opt) = 1 /\ opt[1] # ""

\* ----------------------------------------------------------- generic helpers
RECURSIVE SelectDocs(_, _)
SelectDocs(docs, keep) ==
  IF docs = <<>> THEN <<>>
  ELSE IF keep[1] THEN <<Head(docs)>> \o SelectDocs(Tail(docs), Tail(keep))
       ELSE SelectDocs(Tail(docs), Tail(keep))

Has(doc, field) == field \in DOMAIN doc

SeqSet(s) == {s[i] : i \in 1..Len(s)}

\* ------------------------------------------------------------------ bson ids
StrOid(oid) == [form |-> "lower", oid |-> oid]
UpperHex(oid) == [form |-> "upper", oid |-> oid]
Malformed == [form |-> "malformed", oid |-> 0]

\* bson.ObjectId(text): 24 hex digits of either case parse; anything else
\* raises InvalidId.
ObjectId(text) ==
  IF text.form \in {"lower", "upper"}
  THEN [exc |-> "none", oid |-> text.oid]
  ELSE [exc |-> "InvalidId"]

\* ------------------------------------------------------------------ helpers
\* _to_public: "_id" leaves the document and comes back as "id", a string.
ToPublic(doc) ==
  IF Has(doc, "_id")
  THEN [f \in (DOMAIN doc \ {"_id"}) \cup {"id"} |->
          IF f = "id" THEN StrOid(doc["_id"]) ELSE doc[f]]
  ELSE doc

ToPublicAll(docs) == [i \in 1..Len(docs) |-> ToPublic(docs[i])]

\* ------------------------------------------------------------ storage gateway
\* create_document stamps the record with the current time and the id the
\* store assigns; get_documents returns the matching documents in the
\* store's natural (insertion) order.
Stamp(fields, oid, t) ==
  [f \in DOMAIN fields \cup {"_id", "created_at"} |->
     IF f = "_id" THEN oid ELSE IF f = "created_at" THEN t ELSE fields[f]]

\* A filter is a document of conditions, one per field: {field: value} is
\* [op |-> "eq", v |-> value] and {field: {"$in": values}} on a list field is
\* [op |-> "in", v |-> values].  The empty filter {} is <<>>.
Eq(value) == [op |-> "eq", v |-> value]
In(values) == [op |-> "in", v |-> values]

\* A document matches when it has every field of the filter and meets its
\* condition: the value itself, or a list that shares an element with $in's.
Matches(doc, filt) ==
  \A f \in DOMAIN filt :
    /\ Has(doc, f)
    /\ IF filt[f].op = "eq"
       THEN doc[f] = filt[f].v
       ELSE SeqSet(doc[f]) \cap SeqSet(filt[f].v) # {}

get_documents(coll, filt) ==
  SelectDocs(coll, [i \in 1..Len(coll) |-> Matches(coll[i], filt)])

\* delete_many: the documents that do not match stay, in order.
delete_many(coll, filt) ==
  SelectDocs(coll, [i \in 1..Len(coll) |-> ~Matches(coll[i], filt)])

\* find_one: the first match as a list of one, or the empty list for None.
find_one(coll, filt) ==
  LET hits == get_documents(coll, filt)
  IN IF hits = <<>> THEN <<>> ELSE <<hits[1]>>

\* ------------------------------------------------------------------- schemas
KidFields(name, allowed) ==
  [name |-> name, parent_email |-> "parent@littleyears.demo",
   allowed_grandparents |-> allowed]

MomentFields(kid_id, type, title, visibility) ==
  [kid_id |-> kid_id, type |-> type, title |-> title, visibility |-> visibility]

\* --------------------------------------------------------------------- seed
\* db["kid"].delete_many({"name": "Ava"})
SeedClearKids(kids) == delete_many(kids, [name |-> Eq("Ava")])

\* db["moment"].delete_many({"kid_name": "Ava"})
SeedClearMoments(moments) == delete_many(moments, [kid_name |-> Eq("Ava")])

\* The demo kid and the three demo moments, each stamped by create_document
\* with the id the store assigns and the time of the insert.
SeedKid(oid, t) == Stamp(KidFields("Ava", <<Grandma>>), oid, t)

SeedPhoto(kid_id, oid, t) ==
  Stamp(MomentFields(kid_id, "photo", "First bike ride!", "public"), oid, t)

SeedArt(kid_id, oid, t) ==
  Stamp(MomentFields(kid_id, "art", "Finger painting", "private"), oid, t)

SeedAudio(kid_id, oid, t) ==
  Stamp(MomentFields(kid_id, "audio", "Goodnight message", "public"), oid, t)

\* ------------------------------------------------------------------ list_kids
KidsFilterMutNoFilter(grandparent) == <<>>

\* filt = {}, and {"allowed_grandparents": {"$in": [grandparent]}} for a
\* truthy grandparent.
KidsFilter(grandparent) ==
  IF Truthy(grandparent)
  THEN [allowed_grandparents |-> In(<<grandparent[1]>>)]
  ELSE <<>>

list_kids(grandparent) ==
  IF db = "none"
  THEN [status |-> 500, detail |-> "Database not configured"]
  ELSE [status |-> 200,
        body |-> ToPublicAll(get_documents(kid, KidsFilter(grandparent)))]

\* --------------------------------------------------------------- kid_timeline
\* The body of the try block: ObjectId(kid_id) may raise InvalidId, and a
\* lookup that finds nothing raises HTTPException(404).
LookupKid(kid_id) ==
  LET parsed == ObjectId(kid_id)
  IN IF parsed.exc # "none" THEN [exc |-> "InvalidId"]
     ELSE LET kid_obj == find_one(kid, [_id |-> Eq(parsed.oid)])
          IN IF kid_obj = <<>>
             THEN [exc |-> "HTTPException", status |-> 404, detail |-> "Kid not found"]
             ELSE [exc |-> "none", kid_obj |-> kid_obj[1]]

\* Both InvalidId and HTTPException are subclasses of Exception.
IsException(outcome) == outcome.exc \in {"InvalidId", "HTTPException"}

\* kid_obj.get("allowed_grandparents") or []
AllowedOf(kid_obj) ==
  IF Has(kid_obj, "allowed_grandparents") THEN kid_obj["allowed_grandparents"] ELSE <<>>

AuthorizedMutNever(kid_obj, grandparent) == FALSE

\* grandparent and grandparent in (kid_obj.get("allowed_grandparents") or [])
Authorized(kid_obj, grandparent) ==
  Truthy(grandparent) /\ grandparent[1] \in SeqSet(AllowedOf(kid_obj))

VisibilityFilterMutNoScope(kid_id, all) ==
  IF all THEN <<>> ELSE [visibility |-> Eq("public")]

\* visibility_filter: {"kid_id": kid_id, "visibility": "public"}, widened to
\* {"kid_id": kid_id} for an authorized request of the private moments.
VisibilityFilter(kid_id, all) ==
  IF all
  THEN [kid_id |-> Eq(kid_id)]
  ELSE [kid_id |-> Eq(kid_id), visibility |-> Eq("public")]

\* m.get("created_at") is None for a record without the field; comparing None
\* with anything under < raises TypeError, and a sort of two or more elements
\* compares every element at least once.
SortRaises(docs) ==
  Len(docs) >= 2 /\ \E i \in 1..Len(docs) : ~Has(docs[i], "created_at")

RECURSIVE InsertAscending(_, _)
InsertAscending(sorted, doc) ==
  IF sorted = <<>> THEN <<doc>>
  ELSE IF Head(sorted)["created_at"] <= doc["created_at"]
       THEN <<Head(sorted)>> \o InsertAscending(Tail(sorted), doc)
       ELSE <<doc>> \o sorted

RECURSIVE SortOldestFirst(_)
SortOldestFirst(docs) ==
  IF Len(docs) <= 1 THEN docs
  ELSE InsertAscending(SortOldestFirst(SubSeq(docs, 1, Len(docs) - 1)), docs[Len(docs)])

\* Stable insertion into a list held newest first: the new element goes
\* behind every element whose key is not smaller.
RECURSIVE InsertDescending(_, _)
InsertDescending(sorted, doc) ==
  IF sorted = <<>> THEN <<doc>>
  ELSE IF Head(sorted)["created_at"] >= doc["created_at"]
       THEN <<Head(sorted)>> \o InsertDescending(Tail(sorted), doc)
       ELSE <<doc>> \o sorted

\* moments.sort(key=lambda m: m.get("created_at"), reverse=True), where no
\* comparison raises: a stable sort, newest first.
RECURSIVE SortNewestFirst(_)
SortNewestFirst(docs) ==
  IF Len(docs) <= 1 THEN docs
  ELSE InsertDescending(SortNewestFirst(SubSeq(docs, 1, Len(docs) - 1)), docs[Len(docs)])

\* kid_timeline after the lookup: the access rule, the query, the sort and
\* the response.
kid_timeline(kid_obj, kid_id, include_private, grandparent) ==
  LET all == include_private /\ Authorized(kid_obj, grandparent)
      moments == get_documents(moment, VisibilityFilter(kid_id, all))
  IN IF SortRaises(moments)
     THEN [status |-> 500, detail |-> "Internal Server Error"]
     ELSE [status |-> 200,
           kid |-> ToPublic(kid_obj),
           moments |-> ToPublicAll(SortNewestFirst(moments)),
           includes_private |-> all]

\* -------------------------------------------------------------- initial store
\* The store is a database that outlives the process: what the process finds
\* in it was written earlier, by this code or by other writers.  A document
\* written by create_document is stamped; one written otherwise may lack
\* created_at, or allowed_grandparents, or carry kid_name.
Unstamped(fields, oid) ==
  [f \in DOMAIN fields \cup {"_id"} |-> IF f = "_id" THEN oid ELSE fields[f]]

\* Nothing at all.
EmptyStore == [kid |-> <<>>, moment |-> <<>>]

\* An Ava of an earlier day, with a legacy photo that carries kid_name and a
\* private note that lacks created_at.
EarlierAvaStore ==
  [kid |-> << Stamp(KidFields("Ava", <<Grandma>>), 1, 1) >>,
   moment |-> << Stamp([kid_id |-> StrOid(1), type |-> "photo",
                        title |-> "Legacy photo", visibility |-> "public",
                        kid_name |-> "Ava"], 2, 1),
                 Unstamped(MomentFields(StrOid(1), "note", "Earlier note", "private"), 3) >>]

\* Two kids of another family: Ben, without allowed_grandparents and with two
\* public notes that lack created_at, and Cal, whose list holds an address
\* in another case and the empty string, with one public note that lacks
\* created_at and a private one.
OtherKidsStore ==
  [kid |-> << [_id |-> 1, name |-> "Ben", parent_email |-> "parent@littleyears.demo"],
              Stamp(KidFields("Cal", <<GrandmaCaps, "">>), 2, 1) >>,
   moment |-> << Unstamped(MomentFields(StrOid(1), "note", "Earlier note", "public"), 3),
                 Unstamped(MomentFields(StrOid(1), "note", "Earlier note", "public"), 4),
                 Unstamped(MomentFields(StrOid(2), "note", "Earlier note", "public"), 5),
                 Stamp(MomentFields(StrOid(2), "note", "Earlier note", "private"), 6, 2) >>]

InitStores == {EmptyStore, EarlierAvaStore, OtherKidsStore}

Idle == [op |-> "none"]
NoResponse == [status |-> 0]
Resting == [at |-> "idle"]

Init ==
  /\ db \in {"none", "connected"}
  /\ IF db = "none"
     THEN kid = <<>> /\ moment = <<>>
     ELSE \E store \in InitStores : kid = store.kid /\ moment = store.moment
  /\ nextOid = 1 + Len(kid) + Len(moment)
  /\ now = 2
  /\ inserted = <<>>
  /\ seeding = <<>>
  /\ overlap = FALSE
  /\ reading = Resting
  /\ pc = "running"
  /\ request = Idle
  /\ response = NoResponse

\* ------------------------------------------------------------------- actions
Grandparents == {Absent, Given(""), Given(Grandma), Given(Stranger)}

\* What the clock may advance by from one moment insert of a seed to the
\* next: the next stamp equals the last one or is later.
ClockTicks == {0, 1}

\* Two worker threads run seed_demo, so up to two seed calls are under way
\* at a time.
SeedThreads == {"A", "B"}

\* The kid ids a client may send: the id of every kid in the store; the id
\* of the first of them in upper-case hex as well; every id a moment refers
\* to; an id never assigned; and text that is no ObjectId.
KidIdInputs ==
  LET stored == {kid[i]["_id"] : i \in 1..Len(kid)}
      referred == {moment[i]["kid_id"].oid : i \in 1..Len(moment)}
  IN {StrOid(n) : n \in stored \cup referred \cup {nextOid}}
     \cup {UpperHex(kid[i]["_id"]) : i \in 1..Len(kid) \cap {1}}
     \cup {Malformed}

Quiet == /\ request' = Idle
         /\ response' = NoResponse
         /\ pc' = "running"

\* seeding holds one entry for every seed_demo call that reached the store,
\* in the order the calls began: where the call stands and the ids it has
\* inserted so far.  overlap records whether a call ever began while another
\* was under way.
Done == [at |-> "done"]
seeds == Len(seeding)
UnderWay == {s \in 1..Len(seeding) : seeding[s].at # "done"}
At(step) == {s \in 1..Len(seeding) : seeding[s].at = step}
Proceed(s, step, ids) ==
  seeding' = [seeding EXCEPT ![s] = [at |-> step, inserted_ids |-> ids]]

\* POST /api/seed, up to its first call on the store:
\* db["kid"].delete_many({"name": "Ava"}).
SeedDemoClearKids ==
  /\ pc = "running"
  /\ IF db = "none"
     THEN /\ request' = [op |-> "seed_demo"]
          /\ response' = [status |-> 500, detail |-> "Database not configured"]
          /\ pc' = "responded"
          /\ UNCHANGED <<kid, seeding, overlap>>
     ELSE /\ seeds < MaxSeeds
          /\ Cardinality(UnderWay) < Cardinality(SeedThreads)
          /\ kid' = SeedClearKids(kid)
          /\ seeding' = Append(seeding, [at |-> "clear_moments", inserted_ids |-> <<>>])
          /\ overlap' = (overlap \/ UnderWay # {})
          /\ Quiet
  /\ UNCHANGED <<db, moment, nextOid, now, inserted, reading>>

\* db["moment"].delete_many({"kid_name": "Ava"})
SeedDemoClearMoments ==
  /\ pc = "running"
  /\ \E s \in At("clear_moments") :
       Proceed(s, "insert_kid", seeding[s].inserted_ids)
  /\ moment' = SeedClearMoments(moment)
  /\ Quiet
  /\ UNCHANGED <<db, kid, nextOid, now, inserted, overlap, reading>>

\* kid_id = create_document("kid", kid)
SeedDemoInsertKid ==
  /\ pc = "running"
  /\ \E s \in At("insert_kid") :
       Proceed(s, "insert_photo", <<StrOid(nextOid)>>)
  /\ kid' = Append(kid, SeedKid(nextOid, now))
  /\ nextOid' = nextOid + 1
  /\ Quiet
  /\ UNCHANGED <<db, moment, now, inserted, overlap, reading>>

\* mid1 = create_document("moment", public_photo)
SeedDemoInsertPhoto ==
  /\ pc = "running"
  /\ \E s \in At("insert_photo") :
       /\ moment' = Append(moment, SeedPhoto(seeding[s].inserted_ids[1], nextOid, now))
       /\ Proceed(s, "insert_art", Append(seeding[s].inserted_ids, StrOid(nextOid)))
  /\ nextOid' = nextOid + 1
  /\ Quiet
  /\ UNCHANGED <<db, kid, now, inserted, overlap, reading>>

\* mid2 = create_document("moment", private_art)
SeedDemoInsertArt ==
  /\ pc = "running"
  /\ \E s \in At("insert_art"), tick \in ClockTicks :
       /\ now + tick <= MaxClock
       /\ now' = now + tick
       /\ moment' = Append(moment, SeedArt(seeding[s].inserted_ids[1], nextOid, now'))
       /\ Proceed(s, "insert_audio", Append(seeding[s].inserted_ids, StrOid(nextOid)))
  /\ nextOid' = nextOid + 1
  /\ Quiet
  /\ UNCHANGED <<db, kid, inserted, overlap, reading>>

\* mid3 = create_document("moment", audio_moment), and the response.
SeedDemoInsertAudio ==
  /\ pc = "running"
  /\ \E s \in At("insert_audio"), tick \in ClockTicks :
       /\ now + tick <= MaxClock
       /\ now' = now + tick
       /\ moment' = Append(moment, SeedAudio(seeding[s].inserted_ids[1], nextOid, now'))
       /\ inserted' = Append(seeding[s].inserted_ids, StrOid(nextOid))
       /\ seeding' = [seeding EXCEPT ![s] = Done]
  /\ nextOid' = nextOid + 1
  /\ request' = [op |-> "seed_demo"]
  /\ response' = [status |-> 200, inserted |-> inserted']
  /\ pc' = "responded"
  /\ UNCHANGED <<db, kid, overlap, reading>>

\* GET /api/kids: one call on the store.
ListKids ==
  /\ pc = "running"
  /\ reading.at = "idle"
  /\ \E g \in Grandparents :
       /\ request' = [op |-> "list_kids", grandparent |-> g]
       /\ response' = list_kids(g)
  /\ pc' = "responded"
  /\ UNCHANGED <<db, kid, moment, nextOid, now, inserted, seeding, overlap, reading>>

\* GET /api/kids/{kid_id}/timeline, up to its first call on the store: the
\* try block, which answers 400 for whatever it raises.  These lines read
\* kid_id alone; include_private and grandparent are first read after the
\* lookup, and the request is drawn there in full.
KidTimelineLookup ==
  /\ pc = "running"
  /\ reading.at = "idle"
  /\ \E k \in KidIdInputs :
       LET asked == [op |-> "kid_timeline", kid_id |-> k]
       IN IF db = "none"
          THEN /\ request' = asked
               /\ response' = [status |-> 500, detail |-> "Database not configured"]
               /\ pc' = "responded"
               /\ UNCHANGED reading
          ELSE LET outcome == LookupKid(k)
               IN IF IsException(outcome)
                  THEN /\ request' = asked
                       /\ response' = [status |-> 400, detail |-> "Invalid kid id"]
                       /\ pc' = "responded"
                       /\ UNCHANGED reading
                  ELSE /\ reading' = [at |-> "query", kid_id |-> k,
                                      kid_obj |-> outcome.kid_obj]
                       /\ Quiet
  /\ UNCHANGED <<db, kid, moment, nextOid, now, inserted, seeding, overlap>>

\* The rest of kid_timeline: the access rule on the kid that was found,
\* get_documents on the moments, the sort and the response.
KidTimelineQuery ==
  /\ pc = "running"
  /\ reading.at = "query"
  /\ \E p \in BOOLEAN, g \in Grandparents :
       /\ request' = [op |-> "kid_timeline", kid_id |-> reading.kid_id,
                      include_private |-> p, grandparent |-> g]
       /\ response' = kid_timeline(reading.kid_obj, reading.kid_id, p, g)
  /\ pc' = "responded"
  /\ reading' = Resting
  /\ UNCHANGED <<db, kid, moment, nextOid, now, inserted, seeding, overlap>>

\* The server has sent the response; the worker threads go on.
Reply ==
  /\ pc = "responded"
  /\ Quiet
  /\ UNCHANGED <<db, kid, moment, nextOid, now, inserted, seeding, overlap, reading>>

Next ==
  \/ SeedDemoClearKids
  \/ SeedDemoClearMoments
  \/ SeedDemoInsertKid
  \/ SeedDemoInsertPhoto
  \/ SeedDemoInsertArt
  \/ SeedDemoInsertAudio
  \/ ListKids
  \/ KidTimelineLookup
  \/ KidTimelineQuery
  \/ Reply

Spec == Init /\ [][Next]_vars

\* ------------------------------------------------------------- vocabulary
\* What the claims speak of, stated over the store and the last exchange.
TimelineAnswered == pc = "responded" /\ request.op = "kid_timeline"
ListAnswered == pc = "responded" /\ request.op = "list_kids"
Ok == response.status = 200

\* The kids of the store whose public id is the requested one.
RequestedKids ==
  {i \in 1..Len(kid) : [form |-> "lower", oid |-> kid[i]["_id"]] = request.kid_id}
ExistingKidRequested == TimelineAnswered /\ RequestedKids # {}
RequestedKid == kid[CHOOSE i \in RequestedKids : TRUE]

\* The access rule of the specification: a non-empty email on the kid's list.
MayViewPrivate(k, g) ==
  /\ g # <<>>
  /\ g[1] # ""
  /\ "allowed_grandparents" \in DOMAIN k
  /\ \E i \in 1..Len(k["allowed_grandparents"]) : k["allowed_grandparents"][i] = g[1]

MomentsOf(kid_id) ==
  {i \in 1..Len(moment) : moment[i]["kid_id"] = kid_id}
PublicMomentsOf(kid_id) ==
  {i \in MomentsOf(kid_id) : moment[i]["visibility"] = "public"}
LackingCreatedAt(indexes) == {i \in indexes : "created_at" \notin DOMAIN moment[i]}

PublicIdOf(doc) == [form |-> "lower", oid |-> doc["_id"]]
ReturnedIds == {response.moments[i]["id"] : i \in 1..Len(response.moments)}
ReturnsExactly(indexes) ==
  /\ Len(response.moments) = Cardinality(indexes)
  /\ ReturnedIds = {PublicIdOf(moment[i]) : i \in indexes}

\* Where the store keeps the moment a response element shows.
StorePosition(shown) == CHOOSE i \in 1..Len(moment) : PublicIdOf(moment[i]) = shown["id"]

\* ------------------------------------------------------------------ claims
\* C1: for an existing kid, a timeline request with include_private=true and
\* a grandparent that is absent, empty or not on the kid's list succeeds,
\* reports includes_private=false and returns exactly the kid's public
\* moments.
C1_UnauthorizedGetsPublicOnly ==
  ( /\ ExistingKidRequested
    /\ request.include_private
    /\ ~MayViewPrivate(RequestedKid, request.grandparent) )
  => ( /\ Ok
       /\ response.includes_private = FALSE
       /\ ReturnsExactly(PublicMomentsOf(request.kid_id)) )

\* C2: for an existing kid whose list holds g, a timeline request with
\* include_private=true and grandparent=g reports includes_private=true and
\* returns exactly all moments of the kid.
C2_AuthorizedGetsAll ==
  ( /\ ExistingKidRequested
    /\ request.include_private
    /\ MayViewPrivate(RequestedKid, request.grandparent) )
  => ( /\ Ok
       /\ response.includes_private = TRUE
       /\ ReturnsExactly(MomentsOf(request.kid_id)) )

\* C3: for an existing kid and any grandparent, a timeline request with
\* include_private=false reports includes_private=false and returns exactly
\* the kid's public moments.
C3_PublicOnlyByDefault ==
  ( ExistingKidRequested /\ ~request.include_private )
  => ( /\ Ok
       /\ response.includes_private = FALSE
       /\ ReturnsExactly(PublicMomentsOf(request.kid_id)) )

\* C4: a malformed kid id is answered 400, and a well-formed kid id that
\* matches no kid of the store is answered 404.  The lookup answers in the
\* step that searches the store, so a failure is judged on the store it
\* searched; a request that found its kid and was answered after a seed
\* removed the kid is no lookup failure.
LookupFailed ==
  TimelineAnswered /\ db = "connected" /\ response.status \in {400, 404}

C4_LookupFailuresDistinguished ==
  /\ ( TimelineAnswered /\ db = "connected" /\ request.kid_id.form = "malformed" )
     => response.status = 400
  /\ ( /\ LookupFailed
       /\ request.kid_id.form # "malformed"
       /\ \A i \in 1..Len(kid) : kid[i]["_id"] # request.kid_id.oid )
     => response.status = 404

\* C5: once seed_demo has completed, however often, the calls having
\* followed one another and none being under way, the store holds exactly
\* one kid named "Ava" and exactly three demo moments.
SeedCompleted == inserted # <<>> /\ UnderWay = {} /\ ~overlap

C5_SeedIdempotent ==
  SeedCompleted
  => ( /\ Cardinality({i \in 1..Len(kid) : kid[i]["name"] = "Ava"}) = 1
       /\ Cardinality({i \in 1..Len(moment) : moment[i]["title"] \in DemoTitles}) = 3 )

\* C6: the moments of a timeline response are ordered by created_at, newest
\* first, and moments with equal created_at keep the order the store holds
\* them in, so the sequence is a function of the store and the request.
C6_NewestFirstStable ==
  ( TimelineAnswered /\ Ok )
  => \A i, j \in 1..Len(response.moments) :
       i < j =>
         /\ "created_at" \in DOMAIN response.moments[i]
         /\ "created_at" \in DOMAIN response.moments[j]
         /\ response.moments[i]["created_at"] >= response.moments[j]["created_at"]
         /\ response.moments[i]["created_at"] = response.moments[j]["created_at"]
            => StorePosition(response.moments[i]) < StorePosition(response.moments[j])

\* C6 happens: a response of three moments, two of one instant in the order
\* the store holds them, then an older one that the store holds before both.
C6_Witness ==
  /\ TimelineAnswered
  /\ Ok
  /\ Len(response.moments) = 3
  /\ response.moments[1]["created_at"] = response.moments[2]["created_at"]
  /\ response.moments[2]["created_at"] > response.moments[3]["created_at"]
  /\ StorePosition(response.moments[1]) < StorePosition(response.moments[2])
  /\ StorePosition(response.moments[3]) < StorePosition(response.moments[1])

\* C7: a timeline request whose matching moments include records without
\* created_at succeeds, and every such record comes after all stamped ones.
C7_MissingCreatedAtTolerated ==
  ( ExistingKidRequested /\ LackingCreatedAt(PublicMomentsOf(request.kid_id)) # {} )
  => ( /\ Ok
       /\ \A i, j \in 1..Len(response.moments) :
            ( i < j /\ "created_at" \notin DOMAIN response.moments[i] )
            => "created_at" \notin DOMAIN response.moments[j] )

\* C8: after seed_demo has completed, the seed calls having followed one
\* another and none being under way, the
\* timeline of the kid whose id comes first in the latest inserted list has
\* 2 moments (photo and audio) and
\* includes_private=false by default; 3 moments and includes_private=true for
\* include_private=true with grandma@family.demo; 2 moments and
\* includes_private=false for include_private=true with stranger@x.com.
SeededKidRequested ==
  TimelineAnswered /\ SeedCompleted /\ request.kid_id = inserted[1]

C8_SeedScenario ==
  SeededKidRequested
  => /\ Ok
     /\ ~request.include_private
        => /\ Len(response.moments) = 2
           /\ {response.moments[i]["type"] : i \in 1..2} = {"photo", "audio"}
           /\ response.includes_private = FALSE
     /\ ( request.include_private /\ request.grandparent = <<"grandma@family.demo">> )
        => /\ Len(response.moments) = 3
           /\ response.includes_private = TRUE
     /\ ( request.include_private /\ request.grandparent = <<"stranger@x.com">> )
        => /\ Len(response.moments) = 2
           /\ response.includes_private = FALSE

\* C8 happens: after the second seed, grandma asks for the private moments
\* of the latest Ava and is shown all three.
C8_Witness ==
  /\ SeededKidRequested
  /\ seeds = 2
  /\ request.include_private
  /\ request.grandparent = <<"grandma@family.demo">>
  /\ Ok
  /\ Len(response.moments) = 3

\* C9: list_kids without grandparent returns every kid of the store; with a
\* non-empty grandparent it returns exactly the kids whose
\* allowed_grandparents holds that very string.
ListedIds == [i \in 1..Len(response.body) |-> response.body[i]["id"]]

C9_ListKidsFilter ==
  ( ListAnswered /\ db = "connected" )
  => /\ Ok
     /\ request.grandparent = <<>>
        => ListedIds = [i \in 1..Len(kid) |-> PublicIdOf(kid[i])]
     /\ ( request.grandparent # <<>> /\ request.grandparent[1] # "" )
        => LET holders == {i \in 1..Len(kid) : MayViewPrivate(kid[i], request.grandparent)}
           IN /\ Len(response.body) = Cardinality(holders)
              /\ {ListedIds[i] : i \in 1..Len(ListedIds)}
                   = {PublicIdOf(kid[i]) : i \in holders}

\* C9 happens: of three kids in the store, the filter keeps the one that
\* lists the grandparent.
C9_Witness ==
  /\ ListAnswered
  /\ Ok
  /\ request.grandparent = <<"grandma@family.demo">>
  /\ Len(kid) = 3
  /\ Len(response.body) = 1

\* C10: every moment of a successful timeline response belongs to the
\* requested kid id, whatever include_private and grandparent are, and no
\* step of a timeline call changes the kid or the moment collection.
C10_NoCrossKidTimeline ==
  /\ []( ( TimelineAnswered /\ Ok )
         => \A i \in 1..Len(response.moments) :
              response.moments[i]["kid_id"] = request.kid_id )
  /\ [][ ( reading' # reading \/ request'.op = "kid_timeline" )
          => ( kid' = kid /\ moment' = moment ) ]_vars

\* C10 happens: two kids in the store, each with moments, and a timeline
\* that shows moments of the requested one.
C10_Witness ==
  /\ TimelineAnswered
  /\ Ok
  /\ Len(kid) = 2
  /\ Len(response.moments) >= 1
  /\ \E i \in 1..Len(moment) : moment[i]["kid_id"] # request.kid_id
  /\ request.include_private
  /\ response.includes_private = TRUE

====
